---- MODULE Spec2Model ----
(***************************************************************************)
(* Model of scripts/generate-mumble_qt-qrc.py: the generator of the Qt     *)
(* translation resource manifest (.qrc).                                    *)
(*                                                                          *)
(* Strings are sequences of one-character strings, so that splitting,       *)
(* stripping, case conversion and slicing are computed character by         *)
(* character the way the Python code computes them.  Indices handed to the  *)
(* slicing helpers are Python indices (0-based, -1 for "not found").        *)
(***************************************************************************)
EXTENDS Integers, Sequences, FiniteSets, TLC

----------------------------------------------------------------------------
(* Bounds of the model *)

MaxDirs == 2
MaxListing == 2
MaxConfigLines == 2
MaxParseLines == 2
MaxNameLen == 6

----------------------------------------------------------------------------
(* Characters and the Python string primitives the script uses *)

LowerCase == <<"a", "b", "c", "d", "e", "f", "g", "h", "i", "j", "k", "l", "m", "n", "o", "p", "q", "r", "s", "t", "u", "v", "w", "x", "y", "z">>
UpperCase == <<"A", "B", "C", "D", "E", "F", "G", "H", "I", "J", "K", "L", "M", "N", "O", "P", "Q", "R", "S", "T", "U", "V", "W", "X", "Y", "Z">>

Whitespace == {" ", "\t", "\n"}

\* the uppercase letter of each lowercase letter, and back
ToUpper == [c \in { LowerCase[i] : i \in 1..26 } |->
               UpperCase[CHOOSE i \in 1..26 : LowerCase[i] = c]]

ToLower == [c \in { UpperCase[i] : i \in 1..26 } |->
               LowerCase[CHOOSE i \in 1..26 : UpperCase[i] = c]]

upperChar(c) == IF c \in DOMAIN ToUpper THEN ToUpper[c] ELSE c

lowerChar(c) == IF c \in DOMAIN ToLower THEN ToLower[c] ELSE c

\* str.upper()
upper(s) == [i \in 1..Len(s) |-> upperChar(s[i])]

\* str.lower()
lower(s) == [i \in 1..Len(s) |-> lowerChar(s[i])]

\* str.rfind(c): Python index of the last occurrence of c, -1 if there is none
rfind(s, c) ==
    IF \E i \in 1..Len(s) : s[i] = c
    THEN (CHOOSE i \in 1..Len(s) : s[i] = c /\ \A j \in (i+1)..Len(s) : s[j] # c) - 1
    ELSE -1

\* str.find(c): Python index of the first occurrence of c, -1 if there is none
find(s, c) ==
    IF \E i \in 1..Len(s) : s[i] = c
    THEN (CHOOSE i \in 1..Len(s) : s[i] = c /\ \A j \in 1..(i-1) : s[j] # c) - 1
    ELSE -1

\* The position a Python slice bound k denotes in a string of length n
sliceBound(k, n) ==
    LET k1 == IF k < 0 THEN k + n ELSE k
    IN  IF k1 < 0 THEN 0 ELSE IF k1 > n THEN n ELSE k1

\* s[:k]
sliceTo(s, k) == SubSeq(s, 1, sliceBound(k, Len(s)))

\* s[k:]
sliceFrom(s, k) == SubSeq(s, sliceBound(k, Len(s)) + 1, Len(s))

\* str.startswith(p)
startswith(s, p) == Len(s) >= Len(p) /\ SubSeq(s, 1, Len(p)) = p

\* str.endswith(p)
endswith(s, p) == Len(s) >= Len(p) /\ SubSeq(s, Len(s) - Len(p) + 1, Len(s)) = p

\* str.strip(): drop leading and trailing whitespace
strip(s) ==
    IF \A i \in 1..Len(s) : s[i] \in Whitespace
    THEN << >>
    ELSE LET first == CHOOSE i \in 1..Len(s) :
                          s[i] \notin Whitespace /\ \A j \in 1..(i-1) : s[j] \in Whitespace
             last  == CHOOSE i \in 1..Len(s) :
                          s[i] \notin Whitespace /\ \A j \in (i+1)..Len(s) : s[j] \in Whitespace
         IN  SubSeq(s, first, last)

\* str.split(" ", 1): cut at the first space only
split1(s) ==
    LET i == find(s, " ")
    IN  IF i = -1 THEN << s >> ELSE << sliceTo(s, i), sliceFrom(s, i + 1) >>

\* os.path.splitext(p): <<root, ext>>; the extension starts at the last dot of
\* the last path component, unless that component has only leading dots
splitext(p) ==
    LET sepIndex == rfind(p, "/")
        dotIndex == rfind(p, ".")
    IN  IF dotIndex > sepIndex
           /\ \E k \in (sepIndex + 1)..(dotIndex - 1) : p[k + 1] # "."
        THEN << sliceTo(p, dotIndex), sliceFrom(p, dotIndex) >>
        ELSE << p, << >> >>

----------------------------------------------------------------------------
(* String constants of the script and of the modelled inputs *)

s_qt == <<"q", "t">>
s_qtbase == <<"q", "t", "b", "a", "s", "e">>
ext_qm == <<".", "q", "m">>
ext_ts == <<".", "t", "s">>
OverwritePrefix == <<"m", "u", "m", "b", "l", "e", "_", "o", "v", "e", "r", "w", "r", "i", "t", "e", "_">>
s_fallback == <<"f", "a", "l", "l", "b", "a", "c", "k">>
s_overwrite == <<"o", "v", "e", "r", "w", "r", "i", "t", "e">>
s_override == <<"o", "v", "e", "r", "r", "i", "d", "e">>

allowed_components == { s_qt, s_qtbase }

----------------------------------------------------------------------------
(* getComponentName *)

getComponentNameNoResplit(fileName) ==
    LET stem == splitext(fileName)[1]
        lastUnderscoreIdx == rfind(stem, "_")
    IN  IF lastUnderscoreIdx = -1 THEN << >> ELSE sliceTo(stem, lastUnderscoreIdx)

getComponentName(fileName) ==
    LET stem == splitext(fileName)[1]
        lastUnderscoreIdx == rfind(stem, "_")
    IN  IF lastUnderscoreIdx = -1
        THEN << >>
        ELSE LET component == sliceTo(stem, lastUnderscoreIdx)
                 lang      == sliceFrom(stem, lastUnderscoreIdx + 1)
             IN  IF upper(lang) = lang
                 THEN sliceTo(stem, rfind(component, "_"))
                 ELSE component

----------------------------------------------------------------------------
(* parseTranslationsConfig *)

\* currentFileName in override_qt / name in processedComponents
inList(x, list) == \E i \in 1..Len(list) : list[i] = x

isOverrideOperatorCaseSensitive(rawOperator) ==
    strip(rawOperator) \in { s_overwrite, s_override }

\* operator = splitParts[0].lower().strip(); operator in ["overwrite", "override"]
isOverrideOperator(rawOperator) ==
    strip(lower(rawOperator)) \in { s_overwrite, s_override }

\* f"{translationFileName[:-3]}.qm"
toQmName(translationFileName) == sliceTo(translationFileName, -3) \o ext_qm

lineIsAcceptedAnyExtension(splitParts) ==
    Len(splitParts) = 2 /\ strip(splitParts[2]) # << >>

\* the three checks that raise RuntimeError, on the parts of a stripped
\* non-comment line
lineIsAccepted(splitParts) ==
    /\ Len(splitParts) = 2
    /\ LET translationFileName == strip(splitParts[2])
       IN  translationFileName # << >> /\ endswith(translationFileName, ext_ts)

\* The loop over the lines of the config file.  It appends to the two
\* module-level lists and stops at the first line that raises.
RECURSIVE parseLines(_, _, _)
parseLines(lines, local, override) ==
    IF lines = << >>
    THEN [ok |-> TRUE, local |-> local, override |-> override]
    ELSE LET currentLine == strip(Head(lines))
         IN  IF startswith(currentLine, << "#" >>) \/ currentLine = << >>
             THEN parseLines(Tail(lines), local, override)
             ELSE LET splitParts == split1(currentLine)
                      translationFileName == toQmName(strip(splitParts[2]))
                  IN  IF ~lineIsAccepted(splitParts)
                      THEN [ok |-> FALSE, local |-> local, override |-> override]
                      ELSE parseLines(Tail(lines),
                                      Append(local, translationFileName),
                                      IF isOverrideOperator(splitParts[1])
                                      THEN Append(override, translationFileName)
                                      ELSE override)

parseTranslationsConfig(lines) == parseLines(lines, << >>, << >>)

----------------------------------------------------------------------------
(* The manifest and filesToQrc *)

XmlLine(kind) == [kind |-> kind, alias |-> << >>, dir |-> 0, abs |-> FALSE, file |-> << >>]

\* ' <file alias="{0}">{1}</file>\n' with {1} = os.path.join(directoryPath, currentFileName)
FileEntry(alias, directoryPath, currentFileName) ==
    [kind |-> "file", alias |-> alias, dir |-> directoryPath.dir,
     abs |-> directoryPath.abs, file |-> currentFileName]

\* a directory argument as given on the command line
argPath(d) == [dir |-> d, abs |-> FALSE]

\* os.path.abspath(directoryPath)
abspath(directoryPath) == [dir |-> directoryPath.dir, abs |-> TRUE]

isOverrideEverywhere(currentFileName, override, localTranslationDir) ==
    inList(currentFileName, override)

\* currentFileName in override_qt and localTranslationDir
isOverrideFile(currentFileName, override, localTranslationDir) ==
    inList(currentFileName, override) /\ localTranslationDir

isSkippedNoAllowList(currentFileName) ==
    splitext(currentFileName)[2] # ext_qm

\* the extension and allow-list filters
isSkipped(currentFileName) ==
    \/ splitext(currentFileName)[2] # ext_qm
    \/ getComponentName(currentFileName) \notin allowed_components

isDuplicateNever(name, processedComponents, isOverride) == FALSE

\* name in processedComponents and not isOverride
isDuplicate(name, processedComponents, isOverride) ==
    inList(name, processedComponents) /\ ~isOverride

plainAliasIsStem(currentFileName) == splitext(currentFileName)[1]

\* the alias of a non-override entry
plainAlias(currentFileName) == currentFileName

writePrepend(out, entry) == << entry >> \o out

\* outFile.write(...)
write(out, entry) == Append(out, entry)

RECURSIVE filesToQrc(_, _, _, _, _, _)
filesToQrc(out, processedComponents, fileNames, directoryPath, localTranslationDir, override) ==
    IF fileNames = << >>
    THEN [out |-> out, processedComponents |-> processedComponents]
    ELSE LET currentFileName == Head(fileNames)
             isOverride == isOverrideFile(currentFileName, override, localTranslationDir)
             name == splitext(currentFileName)[1]
         IN  IF isSkipped(currentFileName) \/ isDuplicate(name, processedComponents, isOverride)
             THEN filesToQrc(out, processedComponents, Tail(fileNames),
                             directoryPath, localTranslationDir, override)
             ELSE IF ~isOverride
             THEN filesToQrc(write(out, FileEntry(plainAlias(currentFileName),
                                                  directoryPath, currentFileName)),
                             Append(processedComponents, name), Tail(fileNames),
                             directoryPath, localTranslationDir, override)
             ELSE filesToQrc(write(out, FileEntry(OverwritePrefix \o currentFileName,
                                                  directoryPath, currentFileName)),
                             processedComponents, Tail(fileNames),
                             directoryPath, localTranslationDir, override)

----------------------------------------------------------------------------
(* State *)

VARIABLES
    translation_dir,         \* args.translation_dir: the --translation-dir arguments, in order
    local_translation_dir,   \* args.local_translation_dir
    fs,                      \* the file system: for each directory, whether it exists and its listing
    config,                  \* <local dir>/translations.conf: whether it is a file, and its lines
    outFile,                 \* the content of the file at args.output
    local_qt_translations,   \* module-level list
    override_qt,             \* module-level list
    processedComponents,     \* the registry of main()
    dirIdx,                  \* position of the loop over args.translation_dir
    pc,                      \* position of main(), or of the call of getComponentName
    err,                     \* the uncaught exception that ended the run, "none" if there is none
    fileName,                \* argument of a direct call of getComponentName
    component                \* its result

vars == << translation_dir, local_translation_dir, fs, config, outFile,
           local_qt_translations, override_qt, processedComponents, dirIdx,
           pc, err, fileName, component >>

----------------------------------------------------------------------------
(* Inputs *)

f_qt_de_qm == <<"q", "t", "_", "d", "e", ".", "q", "m">>
f_qtbase_fr_qm == <<"q", "t", "b", "a", "s", "e", "_", "f", "r", ".", "q", "m">>
f_other_de_qm == <<"o", "t", "h", "e", "r", "_", "d", "e", ".", "q", "m">>
f_qt_de_ts == <<"q", "t", "_", "d", "e", ".", "t", "s">>
f_other_de_ts == <<"o", "t", "h", "e", "r", "_", "d", "e", ".", "t", "s">>
t_OverRide == <<"O", "v", "e", "r", "R", "i", "d", "e">>
t_keep == <<"k", "e", "e", "p">>
t_comment == <<"#", "c">>
t_x == <<"x">>
sp == << " " >>
tab == << "\t" >>

DirIds == 1..2

\* the files of the translation directories: two bundled ones, one of a
\* component that is not allowed, one that is no .qm file
Files == { f_qt_de_qm, f_qtbase_fr_qm, f_other_de_qm, f_qt_de_ts }

\* the same without the source file
QmFiles == { f_qt_de_qm, f_qtbase_fr_qm, f_other_de_qm }

SeqsUpTo(S, n) == UNION { [1..k -> S] : k \in 0..n }

\* os.listdir returns each name of the directory once, in no particular order
Listings(S) == { l \in SeqsUpTo(S, MaxListing) :
                   \A i, j \in 1..Len(l) : i # j => l[i] # l[j] }

MissingDir == [exists |-> FALSE, files |-> << >>]

DirStates(S) == { MissingDir } \cup { [exists |-> TRUE, files |-> l] : l \in Listings(S) }

\* the file systems of a command line: a directory that is no argument of the
\* run is left out
FileSystems(S, dirs, localDir) ==
    { f \in [DirIds -> DirStates(S)] :
        \A d \in DirIds : d # localDir /\ (\A i \in 1..Len(dirs) : dirs[i] # d)
                              => f[d] = MissingDir }

\* the command lines: the directories are numbered in the order of their first use
CommandLines == { t \in SeqsUpTo(DirIds, MaxDirs) : t # << >> /\ t[1] = 1 }

NoConfig == [exists |-> FALSE, lines |-> << >>]

ConfigOf(lines) == [exists |-> TRUE, lines |-> lines]

ConfigLines == { s_overwrite \o sp \o f_qt_de_ts,
                 s_fallback \o sp \o f_qt_de_ts,
                 s_overwrite \o sp \o f_other_de_ts }

\* a config file with a line of one token
BadConfig == ConfigOf(<< f_qt_de_ts >>)

\* the lines the parser is exercised on: blank lines, comments, one, two and
\* three tokens, separated by a space, a tab or two spaces
ParseOps == { s_overwrite, t_OverRide, s_fallback, t_keep }
ParseSeps == { sp, tab }
ParseNames == { f_qt_de_ts, f_qt_de_qm }

ParseLines ==
    { o \o s \o n : o \in ParseOps, s \in ParseSeps, n \in ParseNames }
    \cup { s_overwrite \o sp \o f_qt_de_ts \o s \o f_qt_de_ts : s \in ParseSeps }
    \cup { t_keep \o tab \o t_x \o sp \o f_qt_de_ts,
           << >>, sp, t_comment, sp \o t_comment, t_comment \o sp \o f_qt_de_ts,
           s_overwrite, s_overwrite \o sp,
           sp \o s_overwrite \o sp \o f_qt_de_ts \o sp,
           s_overwrite \o sp \o sp \o f_qt_de_ts,
           tab \o s_fallback \o sp \o f_qtbase_fr_qm \o << "\n" >>,
           s_fallback \o sp \o f_other_de_ts \o << "\n" >> }

\* the previous content of the output file
StaleContent == << XmlLine("stale") >>

NameAlphabet == { "q", "D", "1", "_", ".", "/" }

Idle ==
    /\ outFile = StaleContent
    /\ local_qt_translations = << >>
    /\ override_qt = << >>
    /\ processedComponents = << >>
    /\ dirIdx = 1
    /\ err = "none"
    /\ component = << >>

\* the config files of well-formed lines, each line at most once
Configs == { ConfigOf(l) : l \in { c \in SeqsUpTo(ConfigLines, MaxConfigLines) :
                                     \A i, j \in 1..Len(c) : i # j => c[i] # c[j] } }

\* A run of main() on any command line, over directories of .qm files, with
\* any config file of well-formed lines, or none, or a malformed one.  The
\* local directory is the second one: it is no translation directory, or the
\* second of them.
Init ==
    /\ translation_dir \in CommandLines
    /\ local_translation_dir = 2
    /\ fs \in FileSystems(QmFiles, translation_dir, local_translation_dir)
    /\ config \in { NoConfig } \cup
                  { c \in { BadConfig } \cup Configs : fs[local_translation_dir].exists }
    /\ pc = "start"
    /\ fileName = << >>
    /\ Idle

\* A run of main() on any command line, over directories of any files, with
\* no config file, a one-line config file or a malformed one
InitDirs ==
    /\ translation_dir \in CommandLines
    /\ local_translation_dir \in DirIds
    /\ fs \in FileSystems(Files, translation_dir, local_translation_dir)
    /\ config \in { NoConfig } \cup
                  { c \in { BadConfig, ConfigOf(<< s_overwrite \o sp \o f_qt_de_ts >>) } :
                      fs[local_translation_dir].exists }
    /\ pc = "start"
    /\ fileName = << >>
    /\ Idle

\* A run of main() on one translation directory and any config file
InitConfig ==
    /\ translation_dir = << 1 >>
    /\ local_translation_dir = 2
    /\ fs \in { [d \in DirIds |-> IF d = 1 THEN s ELSE [exists |-> TRUE, files |-> << >>]] :
                  s \in { MissingDir, [exists |-> TRUE, files |-> << f_qt_de_qm >>] } }
    /\ config \in { NoConfig } \cup { ConfigOf(l) : l \in SeqsUpTo(ParseLines, MaxParseLines) }
    /\ pc = "start"
    /\ fileName = << >>
    /\ Idle

\* A call of getComponentName on any file name
InitName ==
    /\ translation_dir = << 1 >>
    /\ local_translation_dir = 1
    /\ fs = [d \in DirIds |-> MissingDir]
    /\ config = NoConfig
    /\ pc = "name"
    /\ fileName \in SeqsUpTo(NameAlphabet, MaxNameLen)
    /\ Idle

----------------------------------------------------------------------------
(* main() *)

\* os.path.isfile(configFile) and parseTranslationsConfig returns
ParseConfig ==
    /\ pc = "start"
    /\ config.exists
    /\ LET r == parseTranslationsConfig(config.lines)
       IN  /\ r.ok
           /\ local_qt_translations' = r.local
           /\ override_qt' = r.override
    /\ pc' = "open"
    /\ UNCHANGED << translation_dir, local_translation_dir, fs, config, outFile,
                    processedComponents, dirIdx, err, fileName, component >>

\* parseTranslationsConfig raises RuntimeError: the lists keep what the lines
\* before the offending one appended, and main() ends
ParseConfigFail ==
    /\ pc = "start"
    /\ config.exists
    /\ LET r == parseTranslationsConfig(config.lines)
       IN  /\ ~r.ok
           /\ local_qt_translations' = r.local
           /\ override_qt' = r.override
    /\ pc' = "error"
    /\ err' = "config"
    /\ UNCHANGED << translation_dir, local_translation_dir, fs, config, outFile,
                    processedComponents, dirIdx, fileName, component >>

\* os.path.isfile(configFile) is false
SkipConfig ==
    /\ pc = "start"
    /\ ~config.exists
    /\ pc' = "open"
    /\ UNCHANGED << translation_dir, local_translation_dir, fs, config, outFile,
                    local_qt_translations, override_qt, processedComponents, dirIdx,
                    err, fileName, component >>

\* open(args.output, 'w') truncates the file; then the two header lines
OpenOutput ==
    /\ pc = "open"
    /\ outFile' = write(write(<< >>, XmlLine("doctype_rcc")), XmlLine("qresource"))
    /\ processedComponents' = << >>
    /\ dirIdx' = 1
    /\ pc' = "dirs"
    /\ UNCHANGED << translation_dir, local_translation_dir, fs, config,
                    local_qt_translations, override_qt, err, fileName, component >>

\* open(args.output, 'w') raises OSError
OpenOutputFail ==
    /\ pc = "open"
    /\ pc' = "error"
    /\ err' = "output"
    /\ UNCHANGED << translation_dir, local_translation_dir, fs, config, outFile,
                    local_qt_translations, override_qt, processedComponents, dirIdx,
                    fileName, component >>

listdirOfMissingIsEmpty(d) == TRUE

\* os.listdir(absPath) returns
listdirSucceeds(d) == fs[d].exists

\* processedComponents.extend(dirToQrc(of, dirName, processedComponents)):
\* dirToQrc returns the list it was given, so the list is extended by itself
DirToQrc ==
    /\ pc = "dirs"
    /\ dirIdx <= Len(translation_dir)
    /\ listdirSucceeds(translation_dir[dirIdx])
    /\ LET dirName == translation_dir[dirIdx]
           r == filesToQrc(outFile, processedComponents, fs[dirName].files,
                           abspath(argPath(dirName)), FALSE, override_qt)
       IN  /\ outFile' = r.out
           /\ processedComponents' = r.processedComponents \o r.processedComponents
    /\ dirIdx' = dirIdx + 1
    /\ UNCHANGED << translation_dir, local_translation_dir, fs, config,
                    local_qt_translations, override_qt, pc, err, fileName, component >>

\* os.listdir(absPath) raises FileNotFoundError; the with-block closes the file
DirToQrcFail ==
    /\ pc = "dirs"
    /\ dirIdx <= Len(translation_dir)
    /\ ~listdirSucceeds(translation_dir[dirIdx])
    /\ pc' = "error"
    /\ err' = "dir"
    /\ UNCHANGED << translation_dir, local_translation_dir, fs, config, outFile,
                    local_qt_translations, override_qt, processedComponents, dirIdx,
                    fileName, component >>

\* filesToQrc(of, processedComponents, local_qt_translations, args.local_translation_dir, True)
LocalPass ==
    /\ pc = "dirs"
    /\ dirIdx > Len(translation_dir)
    /\ LET r == filesToQrc(outFile, processedComponents, local_qt_translations,
                           argPath(local_translation_dir), TRUE, override_qt)
       IN  /\ outFile' = r.out
           /\ processedComponents' = r.processedComponents
    /\ pc' = "close"
    /\ UNCHANGED << translation_dir, local_translation_dir, fs, config,
                    local_qt_translations, override_qt, dirIdx, err, fileName, component >>

\* the two closing tags, the end of the with-block and of main()
WriteClosing ==
    /\ pc = "close"
    /\ outFile' = write(write(outFile, XmlLine("end_qresource")), XmlLine("end_rcc"))
    /\ pc' = "done"
    /\ UNCHANGED << translation_dir, local_translation_dir, fs, config,
                    local_qt_translations, override_qt, processedComponents, dirIdx,
                    err, fileName, component >>

\* component = getComponentName(fileName)
CallGetComponentName ==
    /\ pc = "name"
    /\ component' = getComponentName(fileName)
    /\ pc' = "named"
    /\ UNCHANGED << translation_dir, local_translation_dir, fs, config, outFile,
                    local_qt_translations, override_qt, processedComponents, dirIdx,
                    err, fileName >>

Next ==
    \/ ParseConfig
    \/ ParseConfigFail
    \/ SkipConfig
    \/ OpenOutput
    \/ OpenOutputFail
    \/ DirToQrc
    \/ DirToQrcFail
    \/ LocalPass
    \/ WriteClosing

NextName == CallGetComponentName

Spec == Init /\ [][Next]_vars

SpecDirs == InitDirs /\ [][Next]_vars

SpecConfig == InitConfig /\ [][Next]_vars

SpecName == InitName /\ [][NextName]_vars

----------------------------------------------------------------------------
(* Vocabulary of the properties *)

LowerLetters == { LowerCase[i] : i \in 1..26 }
UpperLetters == { UpperCase[i] : i \in 1..26 }

HasLowercase(s) == \E i \in 1..Len(s) : s[i] \in LowerLetters

\* a non-empty string of uppercase letters
IsEntirelyUppercase(s) == s # << >> /\ \A i \in 1..Len(s) : s[i] \in UpperLetters

HasUnderscore(s) == \E i \in 1..Len(s) : s[i] = "_"

IsLastUnderscore(s, i) == i \in 1..Len(s) /\ s[i] = "_" /\ \A j \in (i+1)..Len(s) : s[j] # "_"

\* what precedes, and what follows, the last underscore of s
BeforeLastUnderscore(s) == SubSeq(s, 1, (CHOOSE i \in 1..Len(s) : IsLastUnderscore(s, i)) - 1)
AfterLastUnderscore(s) == SubSeq(s, (CHOOSE i \in 1..Len(s) : IsLastUnderscore(s, i)) + 1, Len(s))

\* the name without its extension
Stem == splitext(fileName)[1]

IsSpace(c) == c = " " \/ c = "\t" \/ c = "\n"

IsBlank(line) == \A i \in 1..Len(line) : IsSpace(line[i])

\* the first character that is no whitespace is #
IsComment(line) ==
    \E i \in 1..Len(line) : line[i] = "#" /\ \A j \in 1..(i-1) : IsSpace(line[j])

IsContentLine(line) == ~IsBlank(line) /\ ~IsComment(line)

\* the whitespace-separated tokens of a line
RECURSIVE Tokens(_)
Tokens(line) ==
    IF IsBlank(line) THEN << >>
    ELSE IF IsSpace(line[1]) THEN Tokens(Tail(line))
    ELSE LET end == IF \E k \in 1..Len(line) : IsSpace(line[k])
                    THEN (CHOOSE k \in 1..Len(line) :
                              IsSpace(line[k]) /\ \A j \in 1..(k-1) : ~IsSpace(line[j])) - 1
                    ELSE Len(line)
         IN  << SubSeq(line, 1, end) >> \o Tokens(SubSeq(line, end + 1, Len(line)))

LastToken(line) == Tokens(line)[Len(Tokens(line))]

EndsInTs(name) ==
    Len(name) >= 3 /\ name[Len(name) - 2] = "." /\ name[Len(name) - 1] = "t" /\ name[Len(name)] = "s"

EndsInQm(name) ==
    Len(name) >= 3 /\ name[Len(name) - 2] = "." /\ name[Len(name) - 1] = "q" /\ name[Len(name)] = "m"

\* file.ts -> file.qm
QmOf(name) == SubSeq(name, 1, Len(name) - 3) \o << ".", "q", "m" >>

SameLetter(a, b) == a = b \/ \E k \in 1..26 : { a, b } = { LowerCase[k], UpperCase[k] }

EqualsIgnoringCase(a, b) == Len(a) = Len(b) /\ \A i \in 1..Len(a) : SameLetter(a[i], b[i])

IsOverrideWord(op) == EqualsIgnoringCase(op, s_overwrite) \/ EqualsIgnoringCase(op, s_override)

ContentLines == SelectSeq(config.lines, IsContentLine)

ParserReturned == config.exists /\ pc # "start" /\ err # "config"

ParserRaised == config.exists /\ pc = "error" /\ err = "config"

----------------------------------------------------------------------------
(* getComponentName: C7, C10 *)

\* C7 as stated: the component of <c>_<lang> is <c> when <lang> is not
\* entirely uppercase; that of <c>_<lang>_<COUNTRY> is <c> when <COUNTRY> is
\* entirely uppercase; that of a stem without underscore is empty.
C7_AsClaimed ==
    pc = "named" =>
        /\ ~HasUnderscore(Stem) => component = << >>
        /\ HasUnderscore(Stem) /\ ~IsEntirelyUppercase(AfterLastUnderscore(Stem))
               => component = BeforeLastUnderscore(Stem)
        /\ ( /\ HasUnderscore(Stem)
             /\ IsEntirelyUppercase(AfterLastUnderscore(Stem))
             /\ HasUnderscore(BeforeLastUnderscore(Stem)) )
               => component = BeforeLastUnderscore(BeforeLastUnderscore(Stem))

\* C7 as amended: the component of <c>_<lang> is <c> when <lang> contains a
\* lowercase letter; the component of <c>_<lang>_<X> is <c> when <X> contains
\* no lowercase letter (uppercase letters, but also digits, punctuation or
\* nothing); the component of a stem without underscore is empty.
C7_ComponentName ==
    pc = "named" =>
        /\ ~HasUnderscore(Stem) => component = << >>
        /\ HasUnderscore(Stem) /\ HasLowercase(AfterLastUnderscore(Stem))
               => component = BeforeLastUnderscore(Stem)
        /\ ( /\ HasUnderscore(Stem)
             /\ ~HasLowercase(AfterLastUnderscore(Stem))
             /\ HasUnderscore(BeforeLastUnderscore(Stem)) )
               => component = BeforeLastUnderscore(BeforeLastUnderscore(Stem))

\* q_q_D: the country segment makes the name split one underscore earlier
C7_Witness ==
    /\ pc = "named"
    /\ Stem = << "q", "_", "q", "_", "D" >>
    /\ component = << "q" >>

\* C10: when the stem contains an underscore, the component is a prefix of
\* the stem and the character of the stem that follows it is an underscore.
C10_ComponentEndsAtUnderscore ==
    pc = "named" /\ HasUnderscore(Stem) =>
        /\ Len(component) < Len(Stem)
        /\ SubSeq(Stem, 1, Len(component)) = component
        /\ Stem[Len(component) + 1] = "_"

----------------------------------------------------------------------------
(* parseTranslationsConfig: C5, C6 *)

NotTwoTokensOrNotTs(line) ==
    IsContentLine(line) /\ (Len(Tokens(line)) # 2 \/ ~EndsInTs(Tokens(line)[2]))

IsRejected(line) ==
    /\ IsContentLine(line)
    /\ \/ Len(Tokens(line)) = 1
       \/ \A i \in 1..Len(line) : line[i] # " "
       \/ ~EndsInTs(LastToken(line))

AllLinesTwoTokens == \A i \in 1..Len(ContentLines) : Len(Tokens(ContentLines[i])) = 2

HasOverrideWord(line) == IsOverrideWord(Tokens(line)[1])

\* C6: after the parser has returned on a config of lines "op file.ts", the
\* local list holds file.qm once per such line, in order, and the override
\* list holds file.qm for exactly the lines whose op is overwrite or override
\* in any letter case; blank lines and comments add nothing.
C6_ParsedLists ==
    ParserReturned /\ AllLinesTwoTokens =>
        /\ local_qt_translations =
               [i \in 1..Len(ContentLines) |-> QmOf(Tokens(ContentLines[i])[2])]
        /\ override_qt =
               [i \in 1..Len(SelectSeq(ContentLines, HasOverrideWord)) |->
                   QmOf(Tokens(SelectSeq(ContentLines, HasOverrideWord)[i])[2])]

\* "OverRide file.ts" and "keep file.ts" were both parsed
C6_Witness ==
    /\ ParserReturned
    /\ Len(config.lines) = 2
    /\ Tokens(config.lines[1]) = << t_OverRide, f_qt_de_ts >>
    /\ Tokens(config.lines[2]) = << t_keep, f_qt_de_ts >>
    /\ local_qt_translations = << f_qt_de_qm, f_qt_de_qm >>
    /\ override_qt = << f_qt_de_qm >>

----------------------------------------------------------------------------
(* The manifest: C1, C2, C3, C4, C8, C9 *)

IsFileEntry(line) == line.kind = "file"

\* the <file> entries of the output file, in order
Entries == SelectSeq(outFile, IsFileEntry)

HasMarker(alias) ==
    Len(alias) >= Len(OverwritePrefix) /\ SubSeq(alias, 1, Len(OverwritePrefix)) = OverwritePrefix

StripMarker(alias) ==
    IF HasMarker(alias) THEN SubSeq(alias, Len(OverwritePrefix) + 1, Len(alias)) ELSE alias

\* an entry written by the pass over the local translations, which joins
\* the directory argument as given; the passes over the --translation-dir
\* directories join its absolute path
IsLocalEntry(e) == ~e.abs

\* a .qm file of an allowed component
Qualifies(f) == EndsInQm(f) /\ getComponentName(f) \in { s_qt, s_qtbase }

Listed(f, d) == fs[d].exists /\ \E i \in 1..Len(fs[d].files) : fs[d].files[i] = f

NumEntriesWithAlias(a) == Cardinality({ i \in 1..Len(Entries) : Entries[i].alias = a })

InLocalList(f) == \E i \in 1..Len(local_qt_translations) : local_qt_translations[i] = f

InOverrideList(f) == \E i \in 1..Len(override_qt) : override_qt[i] = f

\* C1: no two entries of the manifest share an un-prefixed alias; a file of
\* the local pass that is an override is written under
\* mumble_overwrite_<filename>, next to the plain entry of the same name
\* when there is one.
C1_PlainAliasOnce ==
    /\ \A i, j \in 1..Len(Entries) :
           i # j /\ ~HasMarker(Entries[i].alias) => Entries[i].alias # Entries[j].alias
    /\ pc = "done" =>
           \A k \in 1..Len(local_qt_translations) :
               LET f == local_qt_translations[k]
               IN  InOverrideList(f) /\ Qualifies(f) =>
                       /\ NumEntriesWithAlias(OverwritePrefix \o f) >= 1
                       /\ NumEntriesWithAlias(f) <= 1

\* qt_de.qm is in both directories and is an override of the local pass:
\* one plain entry, one prefixed entry
C1_Witness ==
    /\ pc = "done"
    /\ translation_dir = << 1, 2 >>
    /\ Listed(f_qt_de_qm, 1)
    /\ Listed(f_qt_de_qm, 2)
    /\ NumEntriesWithAlias(f_qt_de_qm) = 1
    /\ NumEntriesWithAlias(OverwritePrefix \o f_qt_de_qm) = 1

\* C2: without config file and with one --translation-dir, the manifest has
\* exactly one entry, aliased by the unchanged filename, for each listed .qm
\* file whose component is qt or qtbase, and no other entry.
C2_OnlyAllowedQm ==
    pc = "done" /\ ~config.exists /\ Len(translation_dir) = 1 =>
        LET listing == fs[translation_dir[1]].files
        IN  /\ \A i \in 1..Len(listing) :
                   Qualifies(listing[i]) =>
                       Cardinality({ k \in 1..Len(Entries) :
                                       /\ Entries[k].alias = listing[i]
                                       /\ Entries[k].file = listing[i] }) = 1
            /\ \A k \in 1..Len(Entries) :
                   \E i \in 1..Len(listing) :
                       Qualifies(listing[i]) /\ Entries[k].alias = listing[i]

\* other_de.qm and qt_de.qm are listed, only qt_de.qm is bundled
C2_Witness ==
    /\ pc = "done"
    /\ ~config.exists
    /\ Len(translation_dir) = 1
    /\ fs[translation_dir[1]].files = << f_other_de_qm, f_qt_de_qm >>
    /\ Len(Entries) = 1
    /\ Entries[1].alias = f_qt_de_qm

IsGivenDir(d) == d = local_translation_dir \/ \E i \in 1..Len(translation_dir) : translation_dir[i] = d

\* C3 as stated: every alias, without the marker, names a file present in one
\* of the directories given to the run.
C3_AsClaimed ==
    pc = "done" =>
        \A k \in 1..Len(Entries) :
            \E d \in DirIds : IsGivenDir(d) /\ Listed(StripMarker(Entries[k].alias), d)

\* C3 as amended: every alias, without the marker, names either a file
\* present in the --translation-dir directory the entry points into, or a
\* name of the local-translations list (a filename of the config file with
\* .ts replaced by .qm), whether or not that file is present in the
\* --local-translation-dir.
C3_AliasNamesListedOrConfigured ==
    \A k \in 1..Len(Entries) :
        LET e == Entries[k]
        IN  /\ StripMarker(e.alias) = e.file
            /\ IsLocalEntry(e) => e.dir = local_translation_dir /\ InLocalList(e.file)
            /\ ~IsLocalEntry(e) =>
                   /\ \E i \in 1..Len(translation_dir) : translation_dir[i] = e.dir
                   /\ Listed(e.file, e.dir)

\* an entry of a translation directory and an entry of the local pass whose
\* file is not in the local directory
C3_Witness ==
    /\ pc = "done"
    /\ \E k \in 1..Len(Entries) : ~IsLocalEntry(Entries[k])
    /\ \E k \in 1..Len(Entries) :
           IsLocalEntry(Entries[k]) /\ ~Listed(Entries[k].file, local_translation_dir)

HasEndTags == \E i \in 1..Len(outFile) : outFile[i].kind \in { "end_qresource", "end_rcc" }

PassOf(e) ==
    IF IsLocalEntry(e) THEN Len(translation_dir) + 1
    ELSE CHOOSE i \in 1..Len(translation_dir) :
             translation_dir[i] = e.dir /\ \A j \in 1..(i-1) : translation_dir[j] # e.dir

PositionIn(f, list) == CHOOSE i \in 1..Len(list) : list[i] = f /\ \A j \in 1..(i-1) : list[j] # f

RECURSIVE IsSubsequence(_, _)
IsSubsequence(s, t) ==
    IF s = << >> THEN TRUE
    ELSE IF t = << >> THEN FALSE
    ELSE IF Head(s) = Head(t) THEN IsSubsequence(Tail(s), Tail(t))
    ELSE IsSubsequence(s, Tail(t))

LocalEntryFiles == [k \in 1..Len(SelectSeq(Entries, IsLocalEntry)) |->
                        SelectSeq(Entries, IsLocalEntry)[k].file]

\* C8: the output of a successful run is the two header lines, the entries
\* of the --translation-dir directories in command-line order and, within a
\* directory, in listing order, the entries of the local pass in config
\* order, and the two closing tags; before the end no closing tag is written.
C8_OutputOrder ==
    /\ pc # "done" => ~HasEndTags
    /\ pc = "done" =>
           LET n == Len(outFile)
           IN  /\ n >= 4
               /\ outFile[1].kind = "doctype_rcc"
               /\ outFile[2].kind = "qresource"
               /\ outFile[n-1].kind = "end_qresource"
               /\ outFile[n].kind = "end_rcc"
               /\ \A i \in 3..(n-2) : IsFileEntry(outFile[i])
               /\ \A i, j \in 3..(n-2) :
                      i < j =>
                          /\ PassOf(outFile[i]) <= PassOf(outFile[j])
                          /\ ( /\ ~IsLocalEntry(outFile[j])
                               /\ outFile[i].dir = outFile[j].dir )
                                 => PositionIn(outFile[i].file, fs[outFile[i].dir].files)
                                      < PositionIn(outFile[j].file, fs[outFile[j].dir].files)
               /\ IsSubsequence(LocalEntryFiles, local_qt_translations)

\* one entry of the first directory, one of the second, one of the local pass
C8_Witness ==
    /\ pc = "done"
    /\ Len(outFile) = 7
    /\ PassOf(outFile[3]) = 1
    /\ PassOf(outFile[4]) = 2
    /\ PassOf(outFile[5]) = 3

NumOverrideEntries(f) ==
    Cardinality({ k \in 1..Len(Entries) :
                    Entries[k].alias = OverwritePrefix \o f /\ Entries[k].file = f })

NumInLocalList(f) ==
    Cardinality({ k \in 1..Len(local_qt_translations) : local_qt_translations[k] = f })

\* C9: an entry carries the mumble_overwrite_ prefix exactly when it was
\* written by the local pass and its filename is in the override list, and
\* carries its plain filename otherwise; the registry holds the stems of the
\* plain entries only; after the local pass there is one override entry for
\* each occurrence of an override file in the local list.
C9_OverrideOnlyInLocalPass ==
    /\ \A k \in 1..Len(Entries) :
           LET e == Entries[k]
           IN  IF IsLocalEntry(e) /\ InOverrideList(e.file)
               THEN e.alias = OverwritePrefix \o e.file
               ELSE e.alias = e.file /\ ~HasMarker(e.alias)
    /\ { processedComponents[i] : i \in 1..Len(processedComponents) } =
           { splitext(Entries[k].file)[1] :
                 k \in { m \in 1..Len(Entries) : ~HasMarker(Entries[m].alias) } }
    /\ pc \in { "close", "done" } =>
           \A i \in 1..Len(override_qt) :
               Qualifies(override_qt[i]) =>
                   NumOverrideEntries(override_qt[i]) = NumInLocalList(override_qt[i])

\* qt_de.qm is bundled from a translation directory under its plain alias
\* although it is in the override list, and twice more as an override
C9_Witness ==
    /\ pc = "done"
    /\ InOverrideList(f_qt_de_qm)
    /\ \E k \in 1..Len(Entries) : ~IsLocalEntry(Entries[k]) /\ Entries[k].alias = f_qt_de_qm
    /\ NumInLocalList(f_qt_de_qm) = 2
    /\ NumOverrideEntries(f_qt_de_qm) = 2

====
